---- MODULE Spec2Model ----
(***************************************************************************)
(* The task-queue processor (src/src/task_processor.py), the analysis      *)
(* service with its consensus engine (src/src/services/analysis_service.py)*)
(* and the task store (src/src/db/supabase_client.py) as a state machine.  *)
(*                                                                         *)
(* A Python dict is a function whose DOMAIN is the set of keys present;    *)
(* d.get(k, default) is Get(d, k, default) and the empty dict is <<>>.     *)
(* Confidences and thresholds are in tenths (0.9 is 9, 0.5 is 5).          *)
(* A step of the model is the code between two suspension points of the    *)
(* event loop: the store calls are synchronous, so the coroutine of a task *)
(* yields only while waiting for the semaphore, the image download and the *)
(* provider calls.                                                         *)
(***************************************************************************)
EXTENDS Integers, Sequences, FiniteSets, TLC

\* ------------------------------------------------------------- bounds
\* Number of images in spypoint_images.
NumImages == 1
\* BATCH_SIZE and MAX_WORKERS of the environment (task_processor.py:37-38).
batch_size == 2
max_workers == 1

\* The interval of run_continuous (interval_minutes * 60) and the longest a
\* batch takes, in units of time.
Interval == 2
MaxElapsed == 3
\* asyncio.sleep(60) of the except branch of run_continuous.
Backoff == 60

Images == 1..NumImages
\* The config ids that tasks refer to; a config row may be missing.
ConfigIds == {"cfg1", "cfg2", "cfg3"}
\* A row of analysis_tasks is identified by its (image_id, config_id).
TaskIds == Images \X ConfigIds
ImageOf(t) == t[1]
ConfigOf(t) == t[2]
\* The camera of an image (spypoint_images.camera_name): one camera per image.
CameraOf(i) == i

ProviderNames == {"openai", "gemini", "anthropic"}
AnalysisTypes == {"gate_detection", "water_level", "feed_bin", "custom"}
\* A nullable text column of analysis_configs: the key is missing from the dict
\* ("ABSENT"), the column is null ("NULL"), or it names a provider.
OptionalProvider == ProviderNames \cup {"ABSENT", "NULL"}

VARIABLES
  tasks,      \* analysis_tasks: TaskIds -> row (status "absent": no row)
  configs,    \* analysis_configs: ConfigIds -> row (<<>>: no such row)
  api_keys,   \* TaskProcessor.api_keys: the providers whose *_API_KEY is set
  providers,  \* AnalysisService.providers: the names with a cached adapter
  mode,       \* which operation of TaskProcessor is running: idle, batch, single
  batch,      \* the tasks the running operation fetched
  sem,        \* asyncio.Semaphore._value of process_batch
  wpc,        \* TaskIds -> where the task's process_analysis_task coroutine is
  ret,        \* TaskIds -> what process_analysis_task returned
  final,      \* TaskIds -> results['final_result'] of the task's run (<<>>: none)
  eng,        \* TaskIds -> the in-flight results of analyze_with_dual_models
  saved,      \* image_analysis_results: the tasks with a stored result
  alerts,     \* analysis_alerts: the tasks an alert was created for
  \* run_continuous and its locals:
  rc,         \* where the loop is: off (not running), call, sleep, backoff
  processed,  \* the value its latest process_batch returned
  elapsed,    \* the time that process_batch took
  slept,      \* the duration of its latest asyncio.sleep (0: it did not sleep)
  \* One call of analyze_with_dual_models made from outside process_analysis_task
  \* (the API handlers call the engine themselves):
  e_config,   \* its config argument
  e_keys,     \* which of its three key arguments are not None
  e_pc,       \* where the call is
  e_run,      \* what its analyze_image calls returned so far
  e_calls,    \* analyze_image calls it made
  e_out,      \* the dict it returned (<<>>: none)
  e_last,     \* its latest analyze_image call: provider, outcome, result
  e_logs,     \* its calls of save_ai_analysis_log, in order
  adapters,   \* AnalysisService.providers: name -> the key its adapter was built with
  got,        \* the latest _get_provider request and the adapter it returned
  \* The result cache and the cost tracker of the store:
  now,        \* the clock (utcnow), in hours
  expires_designated, \* the store returns expires_at with a UTC designator
  cache,      \* analysis_cache: key -> entry
  c_found,    \* the latest check_cache call and what it returned
  costs,      \* analysis_costs of today: (provider, model) -> record
  u_calls,    \* update_cost_tracking: client -> where its invocation is
  \* One response run through an adapter's parsing:
  p_in,       \* the object the model answered and the text around it
  p_out       \* what the parsing made of each form of the response

task_vars == <<tasks, configs, api_keys, providers, mode, batch, sem, wpc, ret, final, eng, saved,
               alerts>>
loop_vars == <<rc, processed, elapsed, slept>>
engine_vars == <<e_config, e_keys, e_pc, e_run, e_calls, e_out, e_last, e_logs>>
cache_vars == <<now, expires_designated, cache, c_found>>
cost_vars == <<costs, u_calls>>
parse_vars == <<p_in, p_out>>
\* What neither the task processor nor the engine touches.
side_vars == <<cache_vars, cost_vars, parse_vars, got>>
vars == <<task_vars, engine_vars, loop_vars, adapters, side_vars>>

\* ------------------------------------------------------------- dicts
Get(d, k, default) == IF k \in DOMAIN d THEN d[k] ELSE default
\* Mutant of GetEq: a key missing on either side compares unequal.
GetEqPresent(d1, d2, k) ==
  /\ k \in DOMAIN d1
  /\ k \in DOMAIN d2
  /\ d1[k] = d2[k]
\* d1.get(k) == d2.get(k), a missing key reading as None on either side.
GetEq(d1, d2, k) ==
  /\ (k \in DOMAIN d1) = (k \in DOMAIN d2)
  /\ (k \in DOMAIN d1) => (d1[k] = d2[k])
\* The truth value of d.get(k) for a boolean field.
GetTruthy(d, k) == (k \in DOMAIN d) /\ d[k]
\* The truth value of a nullable provider column.
Truthy(p) == p \in ProviderNames


\* ------------------------------------------------------------- provider adapters
\* What a model may answer, by analysis type: the dicts json.loads yields.
ParsedOutputs(analysis_type) ==
  CASE analysis_type = "gate_detection" ->
         { [gate_visible |-> TRUE,  gate_open |-> TRUE,  confidence |-> 9],
           [gate_visible |-> TRUE,  gate_open |-> TRUE,  confidence |-> 4],
           [gate_visible |-> TRUE,  gate_open |-> FALSE, confidence |-> 4],
           [gate_visible |-> FALSE, gate_open |-> TRUE,  confidence |-> 9] }
    [] analysis_type = "water_level" ->
         { [water_level |-> "LOW",      confidence |-> 9],
           [water_level |-> "LOW",      confidence |-> 4],
           [water_level |-> "ADEQUATE", confidence |-> 9],
           [water_level |-> "EMPTY"] }
    [] analysis_type = "feed_bin" ->
         { [feed_level |-> "LOW",      confidence |-> 9],
           [feed_level |-> "LOW",      confidence |-> 4],
           [feed_level |-> "ADEQUATE", confidence |-> 9],
           [feed_level |-> "EMPTY"] }
    [] OTHER ->
         { [conclusion |-> "a", alert_condition |-> TRUE,  confidence |-> 9],
           [conclusion |-> "a", alert_condition |-> FALSE, confidence |-> 4],
           [conclusion |-> "b", alert_condition |-> TRUE,  confidence |-> 9],
           [conclusion |-> "b", alert_condition |-> FALSE] }

\* AnalysisResult of a call whose output parsed: confidence defaults to 0.5.
ParsedResult(d) ==
  [parsed_data |-> d, confidence |-> Get(d, "confidence", 5), error |-> "None"]
\* AnalysisResult of a call whose output no tier could parse.
UnparseableResult ==
  [parsed_data |-> [error |-> "Failed to parse JSON response", raw |-> "raw"],
   confidence |-> 0, error |-> "None"]
\* AnalysisResult of a call that raised inside the adapter.
ExceptionResult(provider) ==
  IF provider = "openai"
  THEN [parsed_data |-> [error |-> "OpenAI API Error"], confidence |-> 0,
        error |-> "OpenAI API Error"]
  ELSE [parsed_data |-> <<>>, confidence |-> 0, error |-> "Gemini error"]

\* What a provider's side of a call can be: the model answers with JSON
\* ("json"), with text no tier of the parsing can read, the empty string
\* included ("malformed"), the request times out, the API or the network
\* fails, or the content is blocked or missing.
ProviderFailures == {"timeout", "api_error", "blocked", "malformed"}
ProviderOutcomes(analysis_type) ==
  {[kind |-> "json", data |-> d] : d \in ParsedOutputs(analysis_type)}
    \cup {[kind |-> k, data |-> <<>>] : k \in ProviderFailures}

\* The AnalysisResult analyze_image returns for an outcome: the inner try
\* catches what json.loads raises, the outer one everything else (a timeout,
\* an API error, Gemini's "Empty response", OpenAI's content of None).
AdapterResult(provider, outcome) ==
  IF outcome.kind = "json" THEN ParsedResult(outcome.data)
  ELSE IF outcome.kind = "malformed" THEN UnparseableResult
  ELSE ExceptionResult(provider)

\* Every AnalysisResult analyze_image of the provider can return.
analyze_image(provider, analysis_type) ==
  {AdapterResult(provider, outcome) : outcome \in ProviderOutcomes(analysis_type)}

\* The row _save_analysis_log hands to save_ai_analysis_log for a result;
\* `stored` is whether the insert went through (a failure is logged and None
\* is returned).
LogEntry(result, stored) ==
  [parsed_response |-> result.parsed_data, confidence |-> result.confidence,
   analysis_successful |-> (result.error = "None"), error_message |-> result.error,
   stored |-> stored]

\* ProviderFactory.create_provider raises ValueError.
create_provider_raises(provider_name, has_key) ==
  provider_name \notin {"openai", "gemini"} \/ ~has_key

\* AnalysisService._get_provider raises: the name has no cached adapter and the
\* factory raises.
_get_provider_raises(provider_name, has_key) ==
  provider_name \notin providers /\ create_provider_raises(provider_name, has_key)

\* The API keys of the model: the key of the environment and another one.
ApiKeys == {"key_a", "key_b", "key_c"}

\* self.providers after _get_provider cached the adapters of `names`, built
\* with the environment's key; an adapter already cached stays as it is.
Bind(names) ==
  [n \in ProviderNames |->
     IF n \in names /\ adapters[n] = "None" THEN "key_a" ELSE adapters[n]]

\* ------------------------------------------------------------- task store
AbsentRow ==
  [status |-> "absent", priority |-> 0, retry_count |-> 0, error_message |-> "None",
   started_at |-> FALSE, completed_at |-> FALSE]
\* A row as inserted: pending, retry_count 0, the timestamps null.
NewRow(priority) ==
  [status |-> "pending", priority |-> priority, retry_count |-> 0,
   error_message |-> "None", started_at |-> FALSE, completed_at |-> FALSE]

\* The row after update_task_status(task_id, status, error_message) succeeded.
update_task_status(row, status, error_message) ==
  IF status = "processing"
  THEN [row EXCEPT !.status = status, !.started_at = TRUE]
  ELSE IF status = "completed"
  THEN [row EXCEPT !.status = status, !.completed_at = TRUE]
  ELSE IF status = "failed" /\ error_message # ""
  THEN [row EXCEPT !.status = status, !.error_message = error_message,
                   !.retry_count = row.retry_count + 1]
  ELSE [row EXCEPT !.status = status]

\* update_task_status catches every exception of the store and returns False:
\* the row is then left as it was.
StatusWrites(row, status, error_message) ==
  {row, update_task_status(row, status, error_message)}

\* The order of scheduled_at among the tasks of an image.
ScheduledAt(t) ==
  IF ConfigOf(t) = "cfg3" THEN 0 ELSE IF ConfigOf(t) = "cfg1" THEN 1 ELSE 2

\* order('priority', desc=True).order('scheduled_at'): rows are scheduled in the
\* order of their image_id, then of their config.
Before(a, b) ==
  \/ tasks[a].priority > tasks[b].priority
  \/ /\ tasks[a].priority = tasks[b].priority
     /\ \/ a[1] < b[1]
        \/ a[1] = b[1] /\ ScheduledAt(a) < ScheduledAt(b)

\* Mutant of get_pending_tasks: the status filter is dropped.
get_tasks_unfiltered(limit) ==
  LET existing == {t \in TaskIds : tasks[t].status # "absent"}
  IN {t \in existing : Cardinality({u \in existing : Before(u, t)}) < limit}

\* The first `limit` rows with status pending.
get_pending_tasks(limit) ==
  LET pending == {t \in TaskIds : tasks[t].status = "pending"}
  IN {t \in pending : Cardinality({u \in pending : Before(u, t)}) < limit}

\* get_active_configs(camera_name): active configs of the camera or of all cameras.
get_active_configs(camera_name) ==
  {c \in ConfigIds : /\ configs[c] # <<>>
                     /\ configs[c].active
                     /\ configs[c].camera_name \in {"NULL", camera_name}}

\* ------------------------------------------------------------- consensus engine
\* Mutant of _check_agreement: the whole dicts are compared.
_check_agreement_whole_dict(result1, result2, analysis_type) == result1 = result2

_check_agreement(result1, result2, analysis_type) ==
  IF analysis_type = "gate_detection"
  THEN GetEq(result1, result2, "gate_visible") /\ GetEq(result1, result2, "gate_open")
  ELSE IF analysis_type = "water_level"
  THEN GetEq(result1, result2, "water_level")
  ELSE IF analysis_type = "feed_bin"
  THEN GetEq(result1, result2, "feed_level")
  ELSE GetEq(result1, result2, "conclusion")

\* Mutant of _should_trigger_alert: the threshold is not looked at.
_should_trigger_alert_any_confidence(result, config) ==
  IF config.analysis_type = "gate_detection"
  THEN GetTruthy(result, "gate_visible") /\ GetTruthy(result, "gate_open")
  ELSE IF config.analysis_type = "water_level"
  THEN Get(result, "water_level", "ADEQUATE") \in {"LOW", "EMPTY"}
  ELSE IF config.analysis_type = "feed_bin"
  THEN Get(result, "feed_level", "ADEQUATE") \in {"LOW", "EMPTY"}
  ELSE GetTruthy(result, "alert_condition")

_should_trigger_alert(result, config) ==
  IF Get(result, "confidence", 0) < config.threshold
  THEN FALSE
  ELSE IF config.analysis_type = "gate_detection"
  THEN GetTruthy(result, "gate_visible") /\ GetTruthy(result, "gate_open")
  ELSE IF config.analysis_type = "water_level"
  THEN Get(result, "water_level", "ADEQUATE") \in {"LOW", "EMPTY"}
  ELSE IF config.analysis_type = "feed_bin"
  THEN Get(result, "feed_level", "ADEQUATE") \in {"LOW", "EMPTY"}
  ELSE GetTruthy(result, "alert_condition")

\* api_keys.get(provider.upper() + '_API_KEY') is not None.
HasKey(provider) == provider \in api_keys

\* Mutant of SecondaryConfigured: the key argument is not looked at.
SecondaryNamed(config, secondary_provider_key) == Truthy(config.secondary_provider)

\* `not config.get('secondary_provider') or not secondary_provider_key` is false;
\* the key argument is whether a key was passed.
SecondaryConfigured(config, secondary_provider_key) ==
  Truthy(config.secondary_provider) /\ secondary_provider_key
\* `config.get('tiebreaker_provider') and tiebreaker_provider_key`.
TiebreakerConfigured(config, tiebreaker_provider_key) ==
  Truthy(config.tiebreaker_provider) /\ tiebreaker_provider_key

NoResult == <<>>
\* The dicts analyze_with_dual_models returns, one per return statement.
PrimaryOnly(primary_result) ==
  [primary_result |-> primary_result, secondary_result |-> NoResult,
   tiebreaker_result |-> NoResult, final_result |-> primary_result.parsed_data,
   agreement |-> TRUE, tiebreaker_used |-> FALSE]
Agreed(primary_result, secondary_result) ==
  [primary_result |-> primary_result, secondary_result |-> secondary_result,
   tiebreaker_result |-> NoResult, final_result |-> primary_result.parsed_data,
   agreement |-> TRUE, tiebreaker_used |-> FALSE]
\* Mutant of Tiebroken: a tiebreaker below confidence 0.5 is not trusted.
TiebrokenAboveFloor(primary_result, secondary_result, tiebreaker_result) ==
  [primary_result |-> primary_result, secondary_result |-> secondary_result,
   tiebreaker_result |-> tiebreaker_result,
   final_result |-> IF tiebreaker_result.confidence >= 5
                    THEN tiebreaker_result.parsed_data
                    ELSE primary_result.parsed_data,
   agreement |-> FALSE, tiebreaker_used |-> TRUE]
Tiebroken(primary_result, secondary_result, tiebreaker_result) ==
  [primary_result |-> primary_result, secondary_result |-> secondary_result,
   tiebreaker_result |-> tiebreaker_result,
   final_result |-> tiebreaker_result.parsed_data,
   agreement |-> FALSE, tiebreaker_used |-> TRUE]
\* Mutant of HigherConfidence: a tie goes to the secondary.
HigherConfidenceStrict(primary_result, secondary_result) ==
  [primary_result |-> primary_result, secondary_result |-> secondary_result,
   tiebreaker_result |-> NoResult,
   final_result |-> IF primary_result.confidence > secondary_result.confidence
                    THEN primary_result.parsed_data
                    ELSE secondary_result.parsed_data,
   agreement |-> FALSE, tiebreaker_used |-> FALSE]
HigherConfidence(primary_result, secondary_result) ==
  [primary_result |-> primary_result, secondary_result |-> secondary_result,
   tiebreaker_result |-> NoResult,
   final_result |-> IF primary_result.confidence >= secondary_result.confidence
                    THEN primary_result.parsed_data
                    ELSE secondary_result.parsed_data,
   agreement |-> FALSE, tiebreaker_used |-> FALSE]

\* Mutant of AfterPrimary: a primary call that returned an error result is made again.
AfterPrimaryRetrying(config, secondary_provider_key, primary_result) ==
  IF primary_result.error # "None"
  THEN [next |-> "primary", results |-> NoResult]
  ELSE IF ~SecondaryConfigured(config, secondary_provider_key)
  THEN [next |-> "return", results |-> PrimaryOnly(primary_result)]
  ELSE IF _get_provider_raises(config.secondary_provider, secondary_provider_key)
  THEN [next |-> "raise", results |-> NoResult]
  ELSE [next |-> "secondary", results |-> NoResult]

\* What analyze_with_dual_models does between two provider calls: it returns a
\* dict, raises (create_provider), or awaits the next call.
\* Lines 102-130, once the primary call returned.
AfterPrimary(config, secondary_provider_key, primary_result) ==
  IF ~SecondaryConfigured(config, secondary_provider_key)
  THEN [next |-> "return", results |-> PrimaryOnly(primary_result)]
  ELSE IF _get_provider_raises(config.secondary_provider, secondary_provider_key)
  THEN [next |-> "raise", results |-> NoResult]
  ELSE [next |-> "secondary", results |-> NoResult]

\* The provider _get_provider caches on the way to the next call.
Created(config, step) ==
  IF step.next = "secondary" THEN {config.secondary_provider}
  ELSE IF step.next = "tiebreaker" THEN {config.tiebreaker_provider}
  ELSE {}

\* Lines 132-202, once the secondary call returned.
AfterSecondary(config, tiebreaker_provider_key, primary_result, secondary_result) ==
  IF _check_agreement(primary_result.parsed_data, secondary_result.parsed_data,
                      config.analysis_type)
  THEN [next |-> "return", results |-> Agreed(primary_result, secondary_result)]
  ELSE IF ~TiebreakerConfigured(config, tiebreaker_provider_key)
  THEN [next |-> "return",
        results |-> HigherConfidence(primary_result, secondary_result)]
  ELSE IF _get_provider_raises(config.tiebreaker_provider, tiebreaker_provider_key)
  THEN [next |-> "raise", results |-> NoResult]
  ELSE [next |-> "tiebreaker", results |-> NoResult]

\* Lines 175-188, once the tiebreaker call returned.
AfterTiebreaker(primary_result, secondary_result, tiebreaker_result) ==
  [next |-> "return",
   results |-> Tiebroken(primary_result, secondary_result, tiebreaker_result)]

\* ------------------------------------------------------------- process_analysis_task
NoEng == [primary_result |-> NoResult, secondary_result |-> NoResult]

\* The coroutines of process_analysis_task that are between their first and last step.
InFlight == {u \in TaskIds : wpc[u] \in {"download", "primary", "secondary", "tiebreaker"}}

\* Mutant of SemaphoreFree: the coroutines are gathered without the semaphore.
SemaphoreIgnored == TRUE

\* `async with semaphore` lets a coroutine in while the value is positive.
SemaphoreFree == sem > 0

\* process_analysis_task(t) returns: `async with semaphore` releases on the way out.
TaskReturns(t, row, value) ==
  /\ tasks' = [tasks EXCEPT ![t] = row]
  /\ wpc' = [wpc EXCEPT ![t] = "done"]
  /\ ret' = [ret EXCEPT ![t] = value]
  /\ eng' = [eng EXCEPT ![t] = NoEng]
  /\ sem' = IF mode = "batch" THEN sem + 1 ELSE sem

\* The except branch: update_task_status(task_id, 'failed', str(e)); return False.
FailurePath(t, row, message) ==
  \E written \in StatusWrites(row, "failed", message) :
    /\ TaskReturns(t, written, FALSE)
    /\ UNCHANGED <<final, saved, alerts>>

\* Mutant of CompleteTask: a failed alert insert is raised and fails the task.
CompleteTaskAlertRaises(t, row, results) ==
  LET config == configs[ConfigOf(t)] IN
  \E written \in StatusWrites(row, "completed", ""), stored \in BOOLEAN,
     alerted \in BOOLEAN :
    /\ IF ~alerted /\ _should_trigger_alert(results.final_result, config)
       THEN TaskReturns(t, update_task_status(written, "failed", "alert"), FALSE)
       ELSE TaskReturns(t, written, TRUE)
    /\ final' = [final EXCEPT ![t] = results.final_result]
    /\ saved' = IF stored THEN saved \cup {t} ELSE saved
    /\ alerts' = IF alerted /\ _should_trigger_alert(results.final_result, config)
                 THEN alerts \cup {t} ELSE alerts

\* From the engine's return to `return True`: save_analysis_result,
\* update_task_status('completed'), the alert. save_analysis_result and
\* create_alert catch the store's exceptions and return None.
CompleteTask(t, row, results) ==
  LET config == configs[ConfigOf(t)] IN
  \E written \in StatusWrites(row, "completed", ""), stored \in BOOLEAN,
     alerted \in BOOLEAN :
    /\ TaskReturns(t, written, TRUE)
    /\ final' = [final EXCEPT ![t] = results.final_result]
    /\ saved' = IF stored THEN saved \cup {t} ELSE saved
    /\ alerts' = IF alerted /\ _should_trigger_alert(results.final_result, config)
                 THEN alerts \cup {t} ELSE alerts

\* What follows a step of the engine inside process_analysis_task.
EngineStep(t, step, running) ==
  /\ providers' = providers \cup Created(configs[ConfigOf(t)], step)
  /\ IF step.next = "return"
     THEN CompleteTask(t, tasks[t], step.results)
     ELSE IF step.next = "raise"
     THEN FailurePath(t, tasks[t], "ValueError")
     ELSE /\ eng' = [eng EXCEPT ![t] = running]
          /\ wpc' = [wpc EXCEPT ![t] = step.next]
          /\ UNCHANGED <<tasks, ret, final, sem, saved, alerts>>

\* Lines 54-61 and 244-264: the semaphore is acquired, the task row, the config
\* and the image metadata are read (None when the row is missing or the store
\* raises), and the download is awaited.
StartTask(t) ==
  /\ mode \in {"batch", "single"}
  /\ wpc[t] = "queued"
  /\ IF mode = "batch" THEN SemaphoreFree ELSE InFlight = {}
  /\ \E read \in IF configs[ConfigOf(t)] = <<>>
                  THEN {"no_task", "no_config"}
                  ELSE {"ok", "no_task", "no_config", "no_image"} :
       IF read = "ok"
       THEN /\ wpc' = [wpc EXCEPT ![t] = "download"]
            /\ sem' = IF mode = "batch" THEN sem - 1 ELSE sem
            /\ UNCHANGED <<tasks, ret, eng>>
       ELSE /\ wpc' = [wpc EXCEPT ![t] = "done"]
            /\ ret' = [ret EXCEPT ![t] = FALSE]
            /\ UNCHANGED <<tasks, eng, sem>>
  /\ UNCHANGED <<configs, api_keys, providers, mode, batch, final, saved, alerts, engine_vars,
                 loop_vars,
                 side_vars, adapters>>

\* Lines 264-100: download_image returns or raises (an asyncio.TimeoutError has
\* the empty message); then the status becomes processing, the keys are looked
\* up and the primary provider is created and called.
Download(t) ==
  LET config == configs[ConfigOf(t)] IN
  /\ wpc[t] = "download"
  /\ \E result \in {"bytes", "ClientError", ""} :
       IF result # "bytes"
       THEN FailurePath(t, tasks[t], result) /\ UNCHANGED providers
       ELSE \E row \in StatusWrites(tasks[t], "processing", "") :
              IF "NULL" \in {config.secondary_provider, config.tiebreaker_provider}
              THEN FailurePath(t, row, "AttributeError") /\ UNCHANGED providers
              ELSE IF _get_provider_raises(config.primary_provider,
                                           HasKey(config.primary_provider))
              THEN FailurePath(t, row, "ValueError") /\ UNCHANGED providers
              ELSE /\ tasks' = [tasks EXCEPT ![t] = row]
                   /\ wpc' = [wpc EXCEPT ![t] = "primary"]
                   /\ providers' = providers \cup {config.primary_provider}
                   /\ UNCHANGED <<ret, final, eng, sem, saved, alerts>>
  /\ UNCHANGED <<configs, api_keys, mode, batch, engine_vars,
                 loop_vars,
                 side_vars>>
  /\ adapters' = Bind(providers')

\* Lines 95-130: the primary call returns and is logged; without a secondary
\* the engine returns, otherwise the secondary provider is created and called.
\* (ai_analysis_logs is kept for the engine's own specification only: nothing a
\* task's run reads depends on it, and a failed log write is swallowed.)
PrimaryCall(t) ==
  LET config == configs[ConfigOf(t)] IN
  /\ wpc[t] = "primary"
  /\ \E primary_result \in analyze_image(config.primary_provider, config.analysis_type) :
       EngineStep(t, AfterPrimary(config, HasKey(config.secondary_provider),
                                  primary_result),
                  [eng[t] EXCEPT !.primary_result = primary_result])
  /\ UNCHANGED <<configs, api_keys, mode, batch, engine_vars,
                 loop_vars,
                 side_vars>>
  /\ adapters' = Bind(providers')

\* Lines 125-202: the secondary call returns and is logged; on agreement, or on
\* disagreement without a tiebreaker, the engine returns, otherwise the
\* tiebreaker provider is created and called.
SecondaryCall(t) ==
  LET config == configs[ConfigOf(t)] IN
  /\ wpc[t] = "secondary"
  /\ \E secondary_result \in analyze_image(config.secondary_provider,
                                           config.analysis_type) :
       EngineStep(t, AfterSecondary(config, HasKey(config.tiebreaker_provider),
                                    eng[t].primary_result, secondary_result),
                  [eng[t] EXCEPT !.secondary_result = secondary_result])
  /\ UNCHANGED <<configs, api_keys, mode, batch, engine_vars,
                 loop_vars,
                 side_vars>>
  /\ adapters' = Bind(providers')

\* Lines 168-188: the tiebreaker call returns and is logged; the engine returns.
TiebreakerCall(t) ==
  LET config == configs[ConfigOf(t)] IN
  /\ wpc[t] = "tiebreaker"
  /\ \E tiebreaker_result \in analyze_image(config.tiebreaker_provider,
                                            config.analysis_type) :
       EngineStep(t, AfterTiebreaker(eng[t].primary_result, eng[t].secondary_result,
                                     tiebreaker_result),
                  eng[t])
  /\ UNCHANGED <<configs, api_keys, mode, batch, engine_vars,
                 loop_vars,
                 side_vars>>
  /\ adapters' = Bind(providers')

\* ------------------------------------------------------------- TaskProcessor
NoCoroutines == [t \in TaskIds |-> "none"]
NoReturns == [t \in TaskIds |-> FALSE]
NoFinals == [t \in TaskIds |-> NoResult]
NoEngines == [t \in TaskIds |-> NoEng]

\* The locals of a finished process_batch or process_single_image are dropped.
OperationEnds ==
  /\ mode' = "idle"
  /\ batch' = {}
  /\ wpc' = NoCoroutines
  /\ ret' = NoReturns
  /\ final' = NoFinals
  /\ eng' = NoEngines
  /\ sem' = 0

\* run_continuous, line 90: wait_time = max(0, interval_minutes * 60 - elapsed).
wait_time(elapsed_seconds) ==
  IF Interval - elapsed_seconds > 0 THEN Interval - elapsed_seconds ELSE 0

\* run_continuous, lines 82-95, from the return of process_batch to the next
\* suspension point: with processed == batch_size the loop continues at once,
\* otherwise it sleeps wait_time when that is positive. A caller other than
\* the loop drops the count. The locals of the loop are dead from the call of
\* process_batch until they are assigned again: they read 0 meanwhile.
RunContinuousAfterBatch(success_count) ==
  IF rc = "off"
  THEN UNCHANGED loop_vars
  ELSE /\ processed' = success_count
       /\ IF success_count = batch_size
          THEN rc' = "call" /\ elapsed' = 0 /\ slept' = 0
          ELSE \E seconds \in 0..MaxElapsed :
                 /\ elapsed' = seconds
                 /\ slept' = wait_time(seconds)
                 /\ rc' = IF wait_time(seconds) > 0 THEN "sleep" ELSE "call"

\* process_batch, lines 41-65: the pending tasks are fetched ([] when the store
\* raises); with none the call returns 0, otherwise one coroutine per task is
\* gathered behind a semaphore of max_workers.
ProcessBatchStart ==
  /\ mode = "idle"
  /\ rc \in {"off", "call"}
  /\ \E fetched \in {get_pending_tasks(batch_size), {}} :
       IF fetched = {}
       THEN /\ RunContinuousAfterBatch(0)
            /\ UNCHANGED <<mode, batch, sem, wpc>>
       ELSE /\ mode' = "batch"
            /\ batch' = fetched
            /\ sem' = max_workers
            /\ wpc' = [t \in TaskIds |-> IF t \in fetched THEN "queued" ELSE "none"]
            /\ processed' = 0 /\ elapsed' = 0 /\ slept' = 0
            /\ UNCHANGED rc
  /\ UNCHANGED <<tasks, configs, api_keys, providers, ret, final, eng, saved, alerts,
                 engine_vars,
                 side_vars, adapters>>

\* process_batch, lines 62-71: gather is over; the tasks that returned True are counted.
ProcessBatchReturn ==
  /\ mode = "batch"
  /\ \A t \in batch : wpc[t] = "done"
  /\ RunContinuousAfterBatch(Cardinality({t \in batch : ret[t]}))
  /\ OperationEnds
  /\ UNCHANGED <<tasks, configs, api_keys, providers, saved, alerts, engine_vars,
                 side_vars, adapters>>

\* Mutant of AfterException: an exception ends the loop.
AfterExceptionStops == "off"

\* run_continuous, lines 97-99: `except Exception` logs and sleeps the backoff.
AfterException == "backoff"

\* run_continuous, lines 83-99: process_batch is called and an exception
\* escapes it.
ProcessBatchRaises ==
  /\ mode = "idle"
  /\ rc = "call"
  /\ rc' = AfterException
  /\ slept' = Backoff
  /\ UNCHANGED <<task_vars, engine_vars, processed, elapsed,
                 side_vars, adapters>>

\* run_continuous: asyncio.sleep is over and the loop goes round.
RunContinuousWake ==
  /\ rc \in {"sleep", "backoff"}
  /\ rc' = "call"
  /\ UNCHANGED <<task_vars, engine_vars, processed, elapsed, slept,
                 side_vars, adapters>>

\* create_analysis_tasks_for_image: the rows it tries to insert, a pending task
\* of priority 5 for every active config of the image's camera; the insert of
\* an existing (image, config) fails and is ignored.
create_analysis_tasks_for_image(image_id) ==
  {t \in TaskIds : /\ ImageOf(t) = image_id
                   /\ ConfigOf(t) \in get_active_configs(CameraOf(image_id))
                   /\ tasks[t].status = "absent"}

\* process_single_image, lines 101-112: the tasks of the image are created (any
\* of the inserts may fail, and none is made when the metadata cannot be read);
\* with none created the call returns False, otherwise every task of the image
\* is selected, and the call ends there when the select raises.
ProcessSingleImageStart(image_id) ==
  /\ mode = "idle"
  /\ rc = "off"
  /\ \E created \in SUBSET create_analysis_tasks_for_image(image_id),
        select_raises \in BOOLEAN :
       LET rows == [t \in TaskIds |-> IF t \in created THEN NewRow(5) ELSE tasks[t]]
           selected == {t \in TaskIds : ImageOf(t) = image_id
                                        /\ rows[t].status # "absent"}
       IN IF created = {}
          THEN UNCHANGED <<tasks, mode, batch, wpc>>
          ELSE IF select_raises
          THEN tasks' = rows /\ UNCHANGED <<mode, batch, wpc>>
          ELSE /\ tasks' = rows
               /\ mode' = "single"
               /\ batch' = selected
               /\ wpc' = [t \in TaskIds |-> IF t \in selected THEN "queued" ELSE "none"]
  /\ UNCHANGED <<configs, api_keys, providers, sem, ret, final, eng, saved, alerts, engine_vars,
                 loop_vars,
                 side_vars, adapters>>

\* process_single_image, lines 114-125: every task was processed in turn.
ProcessSingleImageReturn ==
  /\ mode = "single"
  /\ \A t \in batch : wpc[t] = "done"
  /\ OperationEnds
  /\ UNCHANGED <<tasks, configs, api_keys, providers, saved, alerts, engine_vars,
                 loop_vars,
                 side_vars, adapters>>

\* ------------------------------------------------------------- the adapter registry
NoAdapters == [n \in ProviderNames |-> "None"]

\* Everything but the registry is left alone.
RegistryFrame ==
  UNCHANGED <<tasks, configs, api_keys, mode, batch, sem, wpc, ret, final, eng, saved, alerts,
              engine_vars, loop_vars, cache_vars, cost_vars, parse_vars>>

\* _get_provider(provider_name, api_key): the adapter is looked up under the
\* name alone; a name without one has it created with the key of this request
\* (create_provider raises without a key or for a name it does not know). The
\* instance is the slot of self.providers it sits in.
GetProvider(provider_name, api_key) ==
  /\ IF provider_name \notin providers
     THEN IF create_provider_raises(provider_name, api_key # "None")
          THEN /\ got' = [provider |-> provider_name, api_key |-> api_key,
                          instance |-> "raised", bound |-> "None"]
               /\ UNCHANGED <<providers, adapters>>
          ELSE /\ providers' = providers \cup {provider_name}
               /\ adapters' = [adapters EXCEPT ![provider_name] = api_key]
               /\ got' = [provider |-> provider_name, api_key |-> api_key,
                          instance |-> provider_name, bound |-> api_key]
     ELSE /\ got' = [provider |-> provider_name, api_key |-> api_key,
                     instance |-> provider_name, bound |-> adapters[provider_name]]
          /\ UNCHANGED <<providers, adapters>>
  /\ RegistryFrame

\* ------------------------------------------------------------- the result cache
\* The hours the clock of the model runs, and the time to live of an entry
\* (cache_hours, 24 by default).
MaxTime == 2
cache_hours == 1

\* The default model of each adapter's analyze_image.
ModelOf(provider) == IF provider = "openai" THEN "gpt-4o-mini" ELSE "gemini-1.5-flash"
\* The hash of an image's bytes.
ImageHash(image_id) == image_id

\* (image_hash, analysis_type, model_provider, model_name).
CacheKeys ==
  {<<ImageHash(i), a, pr, ModelOf(pr)>> :
     i \in Images, a \in {"gate_detection", "water_level"}, pr \in {"openai", "gemini"}}
CachedResults == {"result_1", "result_2"}
NoCache == [k \in CacheKeys |-> NoResult]

\* Everything but the cache is left alone.
CacheFrame ==
  UNCHANGED <<task_vars, engine_vars, loop_vars, adapters, got, cost_vars, parse_vars>>

\* What check_cache returns when its select went through: None without a row
\* (single() raises), None when the comparison of expires_at with utcnow()
\* raises (an expires_at with a UTC designator parses to an aware datetime,
\* utcnow() is naive), the row while expires_at > utcnow(), None afterwards.
check_cache(key) ==
  IF cache[key] = NoResult THEN NoResult
  ELSE IF expires_designated THEN NoResult
  ELSE IF cache[key].expires_at > now THEN cache[key]
  ELSE NoResult

\* check_cache(image_hash, analysis_type, provider, model): every exception of
\* the select is swallowed and None returned.
CheckCache(key) ==
  /\ \E data \in {check_cache(key), NoResult} :
       c_found' = [key |-> key, data |-> data]
  /\ UNCHANGED <<now, expires_designated, cache>>
  /\ CacheFrame

\* The table after an upsert of the row went through: one row per key.
upsert(table, key, row) == [table EXCEPT ![key] = row]

\* save_to_cache(image_hash, analysis_type, provider, model, result, confidence):
\* the entry expires cache_hours from now; an exception of the upsert is logged
\* and swallowed.
SaveToCache(key, result) ==
  /\ \E stored \in BOOLEAN :
       cache' = IF stored
                THEN upsert(cache, key, [result |-> result, expires_at |-> now + cache_hours])
                ELSE cache
  /\ UNCHANGED <<now, expires_designated, c_found>>
  /\ CacheFrame

\* An hour passes.
Tick ==
  /\ now < MaxTime
  /\ now' = now + 1
  /\ UNCHANGED <<expires_designated, cache, c_found>>
  /\ CacheFrame

\* ------------------------------------------------------------- the cost tracker
\* The most calls a record of the model counts.
MaxCount == 3
\* The processes that share the store: the task processor and the API server.
Clients == {"processor", "api"}
\* (model_provider, model_name) of today's records.
CostKeys == {<<pr, ModelOf(pr)>> : pr \in {"openai", "gemini"}}
NoCosts == [k \in CostKeys |-> NoResult]
NotTracking == [c \in Clients |-> [pc |-> "idle"]]
\* (tokens_used, estimated_cost) of a provider call.
Usages == {<<1, 1>>, <<2, 3>>}

\* Everything but the cost records is left alone.
CostFrame ==
  UNCHANGED <<task_vars, engine_vars, loop_vars, adapters, got, cache_vars, parse_vars>>

\* update_cost_tracking, lines 216-222: today's record of (provider, model) is
\* selected; an exception ends the call.
CostSelect(client, key, usage) ==
  /\ u_calls[client].pc = "idle"
  /\ IF costs[key] = NoResult THEN TRUE ELSE costs[key].analysis_count < MaxCount
  /\ \E raised \in BOOLEAN :
       u_calls' = [u_calls EXCEPT ![client] =
                     IF raised THEN [pc |-> "idle"]
                     ELSE [pc |-> "selected", key |-> key, tokens_used |-> usage[1],
                           estimated_cost |-> usage[2], response |-> costs[key]]]
  /\ UNCHANGED costs
  /\ CostFrame

\* Lines 226-230: the record written over the one that was read.
update_data(response, tokens_used, estimated_cost) ==
  [analysis_count |-> response.analysis_count + 1,
   tokens_used |-> response.tokens_used + tokens_used,
   estimated_cost |-> response.estimated_cost + estimated_cost]

\* Lines 224-244: the record that was read is written back with the call
\* added, or a first record is inserted (which fails when another call
\* inserted one meanwhile); an exception is logged and swallowed.
CostWrite(client) ==
  LET call == u_calls[client] IN
  /\ call.pc = "selected"
  /\ \E written \in BOOLEAN :
       costs' = IF ~written THEN costs
                ELSE IF call.response # NoResult
                THEN [costs EXCEPT ![call.key] =
                        update_data(call.response, call.tokens_used, call.estimated_cost)]
                ELSE IF costs[call.key] = NoResult
                THEN [costs EXCEPT ![call.key] =
                        [analysis_count |-> 1, tokens_used |-> call.tokens_used,
                         estimated_cost |-> call.estimated_cost]]
                ELSE costs
  /\ u_calls' = [u_calls EXCEPT ![client] = [pc |-> "idle"]]
  /\ CostFrame

\* ------------------------------------------------------------- initial values
\* No request was made of the registry, the cache is empty and the clock at 0,
\* there is no cost record, nothing was parsed.
InitRegistry == got = NoResult
InitCache ==
  /\ now = 0
  /\ expires_designated = FALSE
  /\ cache = NoCache
  /\ c_found = NoResult
InitCosts ==
  /\ costs = NoCosts
  /\ u_calls = NotTracking
InitParse ==
  /\ p_in = NoResult
  /\ p_out = NoResult
InitSide == InitRegistry /\ InitCache /\ InitCosts /\ InitParse

\* ------------------------------------------------------------- the processor's specification
\* The configs of the processor specification: a gate config with a secondary
\* and a tiebreaker, and a water-level config with the primary alone.
GateConfig ==
  [analysis_type |-> "gate_detection", primary_provider |-> "openai",
   secondary_provider |-> "gemini", tiebreaker_provider |-> "openai",
   threshold |-> 8, active |-> TRUE, camera_name |-> "NULL"]
WaterConfig ==
  [analysis_type |-> "water_level", primary_provider |-> "gemini",
   secondary_provider |-> "ABSENT", tiebreaker_provider |-> "ABSENT",
   threshold |-> 9, active |-> TRUE, camera_name |-> "NULL"]

\* A row created outside the core (the API): any priority; here 5 or 9.
ExternalRow(t) == NewRow(IF ConfigOf(t) = "cfg2" THEN 9 ELSE 5)

\* analysis_configs with the two configs; there is no row cfg3.
TwoConfigs ==
  [c \in ConfigIds |-> IF c = "cfg1" THEN GateConfig
                       ELSE IF c = "cfg2" THEN WaterConfig ELSE <<>>]

\* The queues in which every (image, config) of an existing config has a
\* pending task or none yet.
Queues(rows) ==
  {q \in [TaskIds -> {AbsentRow} \cup {ExternalRow(t) : t \in TaskIds}] :
     \A t \in TaskIds :
       q[t] \in IF rows[ConfigOf(t)] = <<>> THEN {AbsentRow} ELSE {AbsentRow, ExternalRow(t)}}

InitLocals ==
  /\ mode = "idle"
  /\ batch = {}
  /\ sem = 0
  /\ wpc = NoCoroutines
  /\ ret = NoReturns
  /\ final = NoFinals
  /\ eng = NoEngines
  /\ saved = {}
  /\ alerts = {}
  /\ processed = 0
  /\ elapsed = 0
  /\ slept = 0

NoCalls ==
  [primary_result |-> NoResult, secondary_result |-> NoResult,
   tiebreaker_result |-> NoResult]

NoEngineCall ==
  /\ e_config = GateConfig
  /\ e_keys = {}
  /\ e_pc = "none"
  /\ e_run = NoCalls
  /\ e_calls = 0
  /\ e_out = NoResult
  /\ e_last = NoResult
  /\ e_logs = <<>>

\* The processor starts on a queue in which every (image, config) has a pending
\* task or none yet.
Init ==
  /\ tasks \in Queues(TwoConfigs)
  /\ configs = TwoConfigs
  /\ api_keys = {"openai", "gemini"}
  /\ providers = {}
  /\ adapters = NoAdapters
  /\ InitSide
  /\ InitLocals
  /\ rc = "off"
  /\ NoEngineCall

Next ==
  \/ ProcessBatchStart
  \/ ProcessBatchReturn
  \/ \E image_id \in Images : ProcessSingleImageStart(image_id)
  \/ ProcessSingleImageReturn
  \/ \E t \in TaskIds : StartTask(t)
  \/ \E t \in TaskIds : Download(t)
  \/ \E t \in TaskIds : PrimaryCall(t)
  \/ \E t \in TaskIds : SecondaryCall(t)
  \/ \E t \in TaskIds : TiebreakerCall(t)

Spec == Init /\ [][Next]_vars

\* ------------------------------------------------------------- the loop's specification
\* main() without an image id: run_continuous runs for ever on the same queue.
ContinuousInit ==
  /\ tasks \in Queues(TwoConfigs)
  /\ configs = TwoConfigs
  /\ api_keys = {"openai", "gemini"}
  /\ providers = {}
  /\ adapters = NoAdapters
  /\ InitSide
  /\ InitLocals
  /\ rc = "call"
  /\ NoEngineCall

ContinuousNext ==
  \/ ProcessBatchStart
  \/ ProcessBatchReturn
  \/ ProcessBatchRaises
  \/ RunContinuousWake
  \/ \E t \in TaskIds : StartTask(t)
  \/ \E t \in TaskIds : Download(t)
  \/ \E t \in TaskIds : PrimaryCall(t)
  \/ \E t \in TaskIds : SecondaryCall(t)
  \/ \E t \in TaskIds : TiebreakerCall(t)

\* The event loop runs every coroutine that is ready, a sleep ends, and a
\* download or a provider call comes back; nothing makes an exception happen.
ContinuousFairness ==
  /\ WF_vars(ProcessBatchStart)
  /\ WF_vars(ProcessBatchReturn)
  /\ WF_vars(RunContinuousWake)
  /\ \A t \in TaskIds :
       /\ WF_vars(StartTask(t))
       /\ WF_vars(Download(t))
       /\ WF_vars(PrimaryCall(t))
       /\ WF_vars(SecondaryCall(t))
       /\ WF_vars(TiebreakerCall(t))

SpecContinuous == ContinuousInit /\ [][ContinuousNext]_vars /\ ContinuousFairness

\* ------------------------------------------------------------- the engine's specification
\* analyze_with_dual_models called once, with any config and any keys, on a
\* service that may hold adapters from earlier calls.
ConfigSpace ==
  [analysis_type : AnalysisTypes, primary_provider : ProviderNames,
   secondary_provider : OptionalProvider, tiebreaker_provider : OptionalProvider,
   threshold : {8}, active : {TRUE}, camera_name : {"NULL"}]

KeyArguments == {"primary", "secondary", "tiebreaker"}

\* Where the call goes after a step, and what it returned.
EngineCallStep(step) ==
  /\ providers' = providers \cup Created(e_config, step)
  /\ e_pc' = IF step.next = "return" THEN "returned"
             ELSE IF step.next = "raise" THEN "raised"
             ELSE step.next
  /\ e_out' = step.results

\* Lines 84-100: the primary provider is created and called.
EngineStart ==
  /\ e_pc = "start"
  /\ IF _get_provider_raises(e_config.primary_provider, "primary" \in e_keys)
     THEN e_pc' = "raised" /\ UNCHANGED providers
     ELSE e_pc' = "primary" /\ providers' = providers \cup {e_config.primary_provider}
  /\ UNCHANGED <<tasks, configs, api_keys, mode, batch, sem, wpc, ret, final, eng, saved,
                 alerts, loop_vars, e_config, e_keys, e_run, e_calls, e_out, e_last,
                 e_logs,
                 side_vars>>
  /\ adapters' = Bind(providers')

\* Mutant of EngineCallReturns: only a call without an error is logged.
EngineCallReturnsSuccessOnly(provider, outcome, result) ==
  /\ e_calls' = e_calls + 1
  /\ e_last' = [provider |-> provider, outcome |-> outcome.kind, result |-> result]
  /\ \E stored \in BOOLEAN :
       e_logs' = IF result.error = "None" THEN Append(e_logs, LogEntry(result, stored))
                 ELSE e_logs

\* An analyze_image call of the run returned: it is counted and its log is
\* written (_save_analysis_log awaits no I/O of its own: the store is synchronous).
EngineCallReturns(provider, outcome, result) ==
  /\ e_calls' = e_calls + 1
  /\ e_last' = [provider |-> provider, outcome |-> outcome.kind, result |-> result]
  /\ \E stored \in BOOLEAN : e_logs' = Append(e_logs, LogEntry(result, stored))

\* Lines 95-130: the primary call returns and is logged.
EnginePrimaryCall ==
  /\ e_pc = "primary"
  /\ \E outcome \in ProviderOutcomes(e_config.analysis_type) :
       LET primary_result == AdapterResult(e_config.primary_provider, outcome) IN
       /\ e_run' = [e_run EXCEPT !.primary_result = primary_result]
       /\ EngineCallReturns(e_config.primary_provider, outcome, primary_result)
       /\ EngineCallStep(AfterPrimary(e_config, "secondary" \in e_keys, primary_result))
  /\ UNCHANGED <<tasks, configs, api_keys, mode, batch, sem, wpc, ret, final, eng, saved,
                 alerts, loop_vars, e_config, e_keys,
                 side_vars>>
  /\ adapters' = Bind(providers')

\* Lines 125-202: the secondary call returns and is logged.
EngineSecondaryCall ==
  /\ e_pc = "secondary"
  /\ \E outcome \in ProviderOutcomes(e_config.analysis_type) :
       LET secondary_result == AdapterResult(e_config.secondary_provider, outcome) IN
       /\ e_run' = [e_run EXCEPT !.secondary_result = secondary_result]
       /\ EngineCallReturns(e_config.secondary_provider, outcome, secondary_result)
       /\ EngineCallStep(AfterSecondary(e_config, "tiebreaker" \in e_keys,
                                        e_run.primary_result, secondary_result))
  /\ UNCHANGED <<tasks, configs, api_keys, mode, batch, sem, wpc, ret, final, eng, saved,
                 alerts, loop_vars, e_config, e_keys,
                 side_vars>>
  /\ adapters' = Bind(providers')

\* Lines 168-188: the tiebreaker call returns and is logged.
EngineTiebreakerCall ==
  /\ e_pc = "tiebreaker"
  /\ \E outcome \in ProviderOutcomes(e_config.analysis_type) :
       LET tiebreaker_result == AdapterResult(e_config.tiebreaker_provider, outcome) IN
       /\ e_run' = [e_run EXCEPT !.tiebreaker_result = tiebreaker_result]
       /\ EngineCallReturns(e_config.tiebreaker_provider, outcome, tiebreaker_result)
       /\ EngineCallStep(AfterTiebreaker(e_run.primary_result, e_run.secondary_result,
                                         tiebreaker_result))
  /\ UNCHANGED <<tasks, configs, api_keys, mode, batch, sem, wpc, ret, final, eng, saved,
                 alerts, loop_vars, e_config, e_keys,
                 side_vars>>
  /\ adapters' = Bind(providers')

EngineInit ==
  /\ tasks = [t \in TaskIds |-> AbsentRow]
  /\ configs = TwoConfigs
  /\ api_keys = {"openai", "gemini"}
  /\ providers \in SUBSET {"openai", "gemini"}
  /\ adapters = [n \in ProviderNames |-> IF n \in providers THEN "key_a" ELSE "None"]
  /\ InitSide
  /\ InitLocals
  /\ rc = "off"
  /\ e_config \in ConfigSpace
  /\ e_keys \in SUBSET KeyArguments
  /\ e_pc = "start"
  /\ e_run = NoCalls
  /\ e_calls = 0
  /\ e_out = NoResult
  /\ e_last = NoResult
  /\ e_logs = <<>>

EngineNext ==
  \/ EngineStart
  \/ EnginePrimaryCall
  \/ EngineSecondaryCall
  \/ EngineTiebreakerCall

SpecEngine == EngineInit /\ [][EngineNext]_vars

\* ------------------------------------------------------------- claims: the task processor
Terminal == {"completed", "failed"}

\* C1: once a task's status is completed or failed, no step of process_batch,
\* process_single_image or process_analysis_task changes its status again.
C1_TerminalStatusNeverChanges ==
  [][\A t \in TaskIds :
       tasks[t].status \in Terminal => tasks'[t].status = tasks[t].status]_vars

\* C2: every task process_batch fetched is pending until its own coroutine
\* starts on it, and process_batch works on no task that is completed or
\* failed: get_pending_tasks returned pending tasks only.
C2_BatchRunsOnlyPendingTasks ==
  mode = "batch" =>
    \A t \in batch :
      /\ wpc[t] = "queued" => tasks[t].status = "pending"
      /\ t \in InFlight => tasks[t].status \in {"pending", "processing"}

\* C2's case: a batch is at work on a task while another task, completed
\* earlier, stays out of the batch.
C2_Witness ==
  /\ mode = "batch"
  /\ \E t \in batch, u \in TaskIds \ batch :
       wpc[t] = "primary" /\ tasks[u].status = "completed"

\* C3: when process_batch returns, every task it fetched is completed or failed.
C3_BatchLeavesTasksTerminal ==
  [][(mode = "batch" /\ mode' = "idle") =>
       \A t \in batch : tasks'[t].status \in Terminal]_vars

\* C4: when process_analysis_task leaves through its failure path and the task
\* is marked failed, its error_message is set and its retry_count is one more
\* than before (what the claim says of every exception, here stated for the
\* runs in which the status was written).
C4_FailurePathRecordsFailure ==
  [][\A t \in TaskIds :
       (t \in InFlight /\ wpc'[t] = "done" /\ ~ret'[t]
          /\ tasks'[t].status = "failed") =>
         /\ tasks'[t].error_message # "None"
         /\ tasks'[t].retry_count = tasks[t].retry_count + 1]_vars

\* C5: a task becomes completed or failed only from status processing, with
\* started_at recorded.
C5_TerminalOnlyFromProcessing ==
  [][\A t \in TaskIds :
       (tasks'[t].status \in Terminal /\ tasks'[t].status # tasks[t].status) =>
         (tasks[t].status = "processing" /\ tasks[t].started_at)]_vars

\* C6: during process_batch at most max_workers tasks are inside
\* process_analysis_task at the same time.
C6_AtMostMaxWorkersInFlight ==
  mode = "batch" => Cardinality(InFlight) <= max_workers

\* C6's case: max_workers tasks are inside and another task of the batch waits.
C6_Witness ==
  /\ mode = "batch"
  /\ Cardinality(InFlight) = max_workers
  /\ \E t \in batch : wpc[t] = "queued"

\* ------------------------------------------------------------- claims: the consensus engine
\* The fields the agreement of an analysis type is about.
RelevantFields(analysis_type) ==
  CASE analysis_type = "gate_detection" -> {"gate_visible", "gate_open"}
    [] analysis_type = "water_level" -> {"water_level"}
    [] analysis_type = "feed_bin" -> {"feed_level"}
    [] OTHER -> {"conclusion"}

PrimaryRan == e_run.primary_result # NoResult
SecondaryRan == e_run.secondary_result # NoResult
TiebreakerRan == e_run.tiebreaker_result # NoResult

\* The primary and the secondary answer are equal on every relevant field.
SameRelevantFields ==
  \A f \in RelevantFields(e_config.analysis_type) :
    GetEq(e_run.primary_result.parsed_data, e_run.secondary_result.parsed_data, f)

\* A tiebreaker is configured: the config names one and its key was passed.
TiebreakerIsConfigured ==
  e_config.tiebreaker_provider \in ProviderNames /\ "tiebreaker" \in e_keys
\* A secondary is configured: the config names one and its key was passed.
SecondaryIsConfigured ==
  e_config.secondary_provider \in ProviderNames /\ "secondary" \in e_keys

\* The factory can build the tiebreaker's adapter: ProviderFactory knows the name.
TiebreakerIsSupported == ~create_provider_raises(e_config.tiebreaker_provider, TRUE)

\* C7: when the primary and the secondary answer differ on a relevant field and
\* a tiebreaker is configured whose provider the factory supports, the
\* tiebreaker is called, and once it answered its parsed data is the final
\* result whatever its confidence, with agreement false and tiebreaker_used true.
C7_TiebreakerDecides ==
  (SecondaryRan /\ ~SameRelevantFields /\ TiebreakerIsConfigured /\ TiebreakerIsSupported) =>
    /\ e_pc \in {"tiebreaker", "returned"}
    /\ e_pc = "returned" =>
         /\ TiebreakerRan
         /\ e_calls = 3
         /\ e_out.final_result = e_run.tiebreaker_result.parsed_data
         /\ e_out.agreement = FALSE
         /\ e_out.tiebreaker_used = TRUE

\* C7 as stated, for every configured tiebreaker: the tiebreaker is called
\* whenever the answers differ and a tiebreaker is configured.
C7_AsStated ==
  (SecondaryRan /\ ~SameRelevantFields /\ TiebreakerIsConfigured) =>
    e_pc \in {"tiebreaker", "returned"}

\* C7's case: a tiebreaker of confidence 0.4 overrules a primary of confidence 0.9.
C7_Witness ==
  /\ e_pc = "returned"
  /\ SecondaryRan /\ ~SameRelevantFields /\ TiebreakerIsConfigured
  /\ e_run.primary_result.confidence = 9
  /\ e_run.tiebreaker_result.confidence = 4
  /\ e_out.final_result = e_run.tiebreaker_result.parsed_data
  /\ e_out.final_result # e_run.primary_result.parsed_data

\* C8: when the primary and the secondary answer are equal on the relevant
\* fields of the analysis type, the engine returns at once with agreement true,
\* no tiebreaker call, and the primary's parsed data as the final result.
C8_AgreementKeepsPrimary ==
  (SecondaryRan /\ SameRelevantFields) =>
    /\ e_pc = "returned"
    /\ ~TiebreakerRan
    /\ e_calls = 2
    /\ e_out.agreement = TRUE
    /\ e_out.tiebreaker_used = FALSE
    /\ e_out.final_result = e_run.primary_result.parsed_data

\* C8's case: the answers agree on the relevant fields but are different dicts,
\* and a tiebreaker is configured.
C8_Witness ==
  /\ e_pc = "returned"
  /\ SecondaryRan /\ SameRelevantFields /\ TiebreakerIsConfigured
  /\ e_run.primary_result.parsed_data # e_run.secondary_result.parsed_data
  /\ e_out.final_result = e_run.primary_result.parsed_data

\* C9: when the answers differ and no tiebreaker is configured, the engine
\* returns after two calls with the parsed data of the more confident result,
\* the primary's on a tie.
C9_HigherConfidenceWins ==
  (SecondaryRan /\ ~SameRelevantFields /\ ~TiebreakerIsConfigured) =>
    /\ e_pc = "returned"
    /\ ~TiebreakerRan
    /\ e_calls = 2
    /\ e_run.primary_result.confidence >= e_run.secondary_result.confidence
         => e_out.final_result = e_run.primary_result.parsed_data
    /\ e_run.primary_result.confidence < e_run.secondary_result.confidence
         => e_out.final_result = e_run.secondary_result.parsed_data

\* C9's case: a disagreement at equal confidence.
C9_Witness ==
  /\ e_pc = "returned"
  /\ SecondaryRan /\ ~SameRelevantFields /\ ~TiebreakerIsConfigured
  /\ e_run.primary_result.confidence = e_run.secondary_result.confidence
  /\ e_run.primary_result.parsed_data # e_run.secondary_result.parsed_data
  /\ e_out.final_result = e_run.primary_result.parsed_data

\* C10: without a secondary configured, the engine returns as soon as the
\* primary call is back: one provider call, the primary's parsed data as final,
\* agreement true, tiebreaker_used false, for a good and for an error result.
C10_PrimaryAlone ==
  (PrimaryRan /\ ~SecondaryIsConfigured) =>
    /\ e_pc = "returned"
    /\ e_calls = 1
    /\ ~SecondaryRan /\ ~TiebreakerRan
    /\ e_out.final_result = e_run.primary_result.parsed_data
    /\ e_out.agreement = TRUE
    /\ e_out.tiebreaker_used = FALSE

\* C10's case: the primary call returned an error result, and the config names
\* a secondary whose key is missing.
C10_Witness ==
  /\ e_pc = "returned"
  /\ ~SecondaryIsConfigured
  /\ e_config.secondary_provider \in ProviderNames
  /\ e_run.primary_result.error # "None"
  /\ e_out.final_result = e_run.primary_result.parsed_data

\* ------------------------------------------------------------- claims: calls and logs
\* How many of the three roles have an answer in the run.
RolesCalled ==
  (IF PrimaryRan THEN 1 ELSE 0) + (IF SecondaryRan THEN 1 ELSE 0)
    + (IF TiebreakerRan THEN 1 ELSE 0)

ResultsInOrder ==
  (IF PrimaryRan THEN <<e_run.primary_result>> ELSE <<>>)
    \o (IF SecondaryRan THEN <<e_run.secondary_result>> ELSE <<>>)
    \o (IF TiebreakerRan THEN <<e_run.tiebreaker_result>> ELSE <<>>)

StoredLogs == {i \in 1..Len(e_logs) : e_logs[i].stored}

C13_FailureIsAnErrorResult ==
  (e_last # NoResult /\ e_last.outcome \in ProviderFailures) =>
    /\ e_last.result.error # "None"
    /\ e_last.result.confidence = 0

\* C15: when no tier could parse the model's output, the call's log entry is
\* marked unsuccessful, with confidence 0 and an error payload.
C15_UnparseableIsLoggedUnsuccessful ==
  (e_last # NoResult /\ e_last.outcome = "malformed") =>
    /\ e_logs[Len(e_logs)].analysis_successful = FALSE
    /\ e_logs[Len(e_logs)].confidence = 0
    /\ "error" \in DOMAIN e_logs[Len(e_logs)].parsed_response

\* ------------------------------------------------------------- claims: run_continuous
\* C19: when process_batch returns to the loop after a full batch (it fetched
\* batch_size tasks and ran them), the loop calls process_batch again without
\* sleeping; after any other batch it sleeps max(0, interval - elapsed).
C19_FullBatchLoopsAtOnce ==
  [][(rc = "call" /\ mode = "batch" /\ mode' = "idle") =>
       IF Cardinality(batch) = batch_size
       THEN rc' = "call" /\ slept' = 0
       ELSE /\ slept' = (IF Interval > elapsed' THEN Interval - elapsed' ELSE 0)
            /\ rc' = (IF slept' > 0 THEN "sleep" ELSE "call")]_vars

\* process_batch is invoked by the loop: it starts, or an exception escapes it.
ProcessBatchCalled == ProcessBatchStart \/ ProcessBatchRaises

CallStages == {"primary", "secondary", "tiebreaker"}

\* An error result as the claim describes it: confidence 0 and an error payload.
IsContainedError(result) ==
  result.confidence = 0 /\ "error" \in DOMAIN result.parsed_data

\* C14: a provider call of a task that failed (its result has an error) gives
\* a result with confidence 0 and an error payload as parsed data, and the run
\* of the task still ends in success, with the task completed, never failed.
C14_ProviderErrorIsContained ==
  [][\A t \in TaskIds :
       /\ (eng'[t].primary_result # NoResult /\ eng'[t].primary_result.error # "None")
            => IsContainedError(eng'[t].primary_result)
       /\ (eng'[t].secondary_result # NoResult /\ eng'[t].secondary_result.error # "None")
            => IsContainedError(eng'[t].secondary_result)
       /\ (wpc[t] = "tiebreaker" /\ wpc'[t] = "done"
             /\ (eng[t].primary_result.error # "None"
                    \/ eng[t].secondary_result.error # "None"))
            => (ret'[t] /\ tasks'[t].status # "failed")]_vars

\* The claim's condition for an alert: the final result's confidence (0 when it
\* carries none) is at least the threshold and the danger predicate of the
\* analysis type holds.
AlertConditions(result, config) ==
  /\ "confidence" \in DOMAIN result
  /\ result.confidence >= config.threshold
  /\ CASE config.analysis_type = "gate_detection" ->
            /\ "gate_visible" \in DOMAIN result /\ result.gate_visible
            /\ "gate_open" \in DOMAIN result /\ result.gate_open
       [] config.analysis_type = "water_level" ->
            "water_level" \in DOMAIN result /\ result.water_level \in {"LOW", "EMPTY"}
       [] config.analysis_type = "feed_bin" ->
            "feed_level" \in DOMAIN result /\ result.feed_level \in {"LOW", "EMPTY"}
       [] OTHER ->
            "alert_condition" \in DOMAIN result /\ result.alert_condition

\* The run of process_analysis_task on t ends in this step, from inside the engine.
EngineRunEnds(t) == wpc[t] \in CallStages /\ wpc'[t] = "done"

\* The row after a status write of 'completed' that went through.
MarkedCompleted(row) == [row EXCEPT !.status = "completed", !.completed_at = TRUE]

C17_AlertFailureLeavesTaskCompleted ==
  [][\A t \in TaskIds :
       (EngineRunEnds(t) /\ final'[t] # NoResult
          /\ AlertConditions(final'[t], configs[ConfigOf(t)])
          /\ t \notin alerts') =>
         /\ ret'[t]
         /\ tasks'[t] \in {tasks[t], MarkedCompleted(tasks[t])}
         /\ tasks'[t].retry_count = tasks[t].retry_count
         /\ tasks'[t].error_message = tasks[t].error_message]_vars

\* C17's case: a task whose alert was due and was not created is completed and
\* its run returned True.
C17_Witness ==
  \E t \in TaskIds :
    /\ wpc[t] = "done" /\ ret[t]
    /\ final[t] # NoResult
    /\ AlertConditions(final[t], configs[ConfigOf(t)])
    /\ t \notin alerts
    /\ tasks[t].status = "completed"

\* C18: a task in status completed has a stored analysis result and its
\* completed_at set.
C18_CompletedHasStoredResult ==
  \A t \in TaskIds :
    tasks[t].status = "completed" => (t \in saved /\ tasks[t].completed_at)

\* ------------------------------------------------------------- claims: bounded waits
\* The wait of a provider call is bounded: the adapters pass no timeout to
\* chat.completions.create or generate_content and wrap them in no wait_for,
\* and process_batch gathers the coroutines without one.
provider_call_timeout == FALSE

\* What the event loop guarantees when a provider may never answer: every
\* coroutine that is ready runs, a sleep ends and a download comes back; a
\* provider call comes back only if its wait is bounded.
TimeoutFairness ==
  /\ WF_vars(ProcessBatchStart)
  /\ WF_vars(ProcessBatchReturn)
  /\ WF_vars(RunContinuousWake)
  /\ \A t \in TaskIds :
       /\ WF_vars(StartTask(t))
       /\ WF_vars(Download(t))
       /\ WF_vars(provider_call_timeout /\ PrimaryCall(t))
       /\ WF_vars(provider_call_timeout /\ SecondaryCall(t))
       /\ WF_vars(provider_call_timeout /\ TiebreakerCall(t))

\* run_continuous on providers that may never answer.
SpecTimeout == ContinuousInit /\ [][ContinuousNext]_vars /\ TimeoutFairness

\* C21: a provider call that is awaited comes back (as a result, with an error
\* when it timed out), the batch finishes, and every task that entered
\* processing reaches completed or failed, also when a provider never answers.
C21_ProviderCallsAreBounded ==
  /\ \A t \in TaskIds : (wpc[t] \in CallStages) ~> (wpc[t] = "done")
  /\ (mode = "batch") ~> (mode = "idle")
  /\ \A t \in TaskIds :
       (tasks[t].status = "processing") ~> (tasks[t].status \in Terminal)

\* ------------------------------------------------------------- the store's specifications
\* No operation of the task processor is running and the queue is empty.
IdleProcessor ==
  /\ tasks = [t \in TaskIds |-> AbsentRow]
  /\ configs = TwoConfigs
  /\ api_keys = {"openai", "gemini"}
  /\ InitLocals
  /\ rc = "off"
  /\ NoEngineCall

\* An empty analysis_cache, whose expires_at column returns its values with a
\* UTC designator or without one.
CacheInit ==
  /\ IdleProcessor
  /\ providers = {}
  /\ adapters = NoAdapters
  /\ InitRegistry /\ InitCosts /\ InitParse
  /\ now = 0
  /\ expires_designated \in BOOLEAN
  /\ cache = NoCache
  /\ c_found = NoResult

CacheNext ==
  \/ \E key \in CacheKeys : CheckCache(key)
  \/ \E key \in CacheKeys, result \in CachedResults : SaveToCache(key, result)
  \/ Tick

SpecCache == CacheInit /\ [][CacheNext]_vars

\* ------------------------------------------------------------- claims: the result cache
\* C22: a lookup made while the key's entry has not expired returns the stored
\* entry, a lookup at or after the expiry (or without an entry) returns absent,
\* and a store leaves one entry under its key, the one it stored.
C22_CacheRoundTrip ==
  [][/\ c_found' # c_found =>
          LET key == c_found'.key IN
          IF cache[key] # NoResult /\ now < cache[key].expires_at
          THEN c_found'.data = cache[key]
          ELSE c_found'.data = NoResult
     /\ cache' # cache =>
          \E key \in CacheKeys, result \in CachedResults :
            cache' = [cache EXCEPT ![key] =
                        [result |-> result, expires_at |-> now + cache_hours]]]_vars

\* The cache key of a provider call of a task's run.
CallKey(t, provider) ==
  <<ImageHash(ImageOf(t)), configs[ConfigOf(t)].analysis_type, provider, ModelOf(provider)>>

\* A result of a call that went through and whose output parsed.
IsSuccessful(result) == result.error = "None" /\ "error" \notin DOMAIN result.parsed_data

\* C23: the run of a task looks its primary call up in the cache before making
\* it, and when the call was successful the cache holds an entry under the
\* call's key once the call is over.
C23_EngineUsesCache ==
  [][\A t \in TaskIds :
       /\ (wpc[t] = "download" /\ wpc'[t] = "primary") =>
            (c_found' # NoResult
               /\ c_found'.key = CallKey(t, configs[ConfigOf(t)].primary_provider))
       /\ (wpc[t] = "primary" /\ wpc'[t] = "secondary"
             /\ IsSuccessful(eng'[t].primary_result)) =>
            cache'[CallKey(t, configs[ConfigOf(t)].primary_provider)] # NoResult]_vars

\* ------------------------------------------------------------- claims: the cost tracker
\* The provider of the call a task's run is waiting for.
CallProvider(t) ==
  IF wpc[t] = "primary" THEN configs[ConfigOf(t)].primary_provider
  ELSE IF wpc[t] = "secondary" THEN configs[ConfigOf(t)].secondary_provider
  ELSE configs[ConfigOf(t)].tiebreaker_provider

\* analysis_count of a record, 0 without one.
CallCount(record) == IF record = NoResult THEN 0 ELSE record.analysis_count

\* C24: when a provider call of a task's run is over, today's cost record of
\* the call's (provider, model) counts one call more.
C24_CostRecordedPerCall ==
  [][\A t \in TaskIds :
       (wpc[t] \in CallStages /\ wpc'[t] # wpc[t]) =>
         LET key == <<CallProvider(t), ModelOf(CallProvider(t))>> IN
         /\ costs'[key] # NoResult
         /\ costs'[key].analysis_count = CallCount(costs[key]) + 1]_vars

\* ------------------------------------------------------------- the cost tracker's specification
\* Today's records, present or not yet, and no invocation under way.
CostInit ==
  /\ IdleProcessor
  /\ providers = {}
  /\ adapters = NoAdapters
  /\ InitRegistry /\ InitCache /\ InitParse
  /\ costs \in [CostKeys -> {NoResult, [analysis_count |-> 1, tokens_used |-> 1,
                                         estimated_cost |-> 1]}]
  /\ u_calls = NotTracking

\* The processes call update_cost_tracking on the shared store; the select and
\* the write of a call are two requests to the store.
CostNext ==
  \/ \E client \in Clients, key \in CostKeys, usage \in Usages :
       CostSelect(client, key, usage)
  \/ \E client \in Clients : CostWrite(client)

SpecCost == CostInit /\ [][CostNext]_vars

\* C25: whatever the interleaving of the invocations, the call count, the
\* token total and the estimated cost of a record never decrease.
C25_CostNeverDecreases ==
  [][\A key \in CostKeys :
       costs[key] # NoResult =>
         /\ costs'[key] # NoResult
         /\ costs'[key].analysis_count >= costs[key].analysis_count
         /\ costs'[key].tokens_used >= costs[key].tokens_used
         /\ costs'[key].estimated_cost >= costs[key].estimated_cost]_vars

\* ------------------------------------------------------------- requests to the registry
\* An analysis service that has answered no request yet.
RegistryInit ==
  /\ IdleProcessor
  /\ providers = {}
  /\ adapters = NoAdapters
  /\ InitRegistry /\ InitCache /\ InitCosts /\ InitParse

\* Callers ask for the adapter of a provider with the key they hold, or with
\* none.
RegistryNext ==
  \E provider_name \in ProviderNames, api_key \in ApiKeys \cup {"None"} :
    GetProvider(provider_name, api_key)

SpecRegistry == RegistryInit /\ [][RegistryNext]_vars

\* C26: a request with an API key that gets an adapter gets one bound to that
\* key, so two requests for one provider with different keys never get the
\* same instance.
C26_OneAdapterPerProviderAndKey ==
  (got # NoResult /\ got.api_key \in ApiKeys /\ got.instance # "raised")
    => got.bound = got.api_key

\* ------------------------------------------------------------- parsing a raw response
\* A raw response is a sequence of lexemes: the fence of three backticks with
\* and without the json tag, the braces and the comma, a key with its colon, a number, white space, and a word of prose.
FenceJson == <<"fence_json">>
Fence == <<"fence">>
LBrace == <<"{">>
RBrace == <<"}">>
Comma == <<",">>
Space == <<" ">>
Word == <<"word">>
Key(k) == <<"key", k>>
Number(n) == <<"number", n>>
IsKey(x) == Len(x) = 2 /\ x[1] = "key"
IsNumber(x) == Len(x) = 2 /\ x[1] = "number"

\* s without its first or last n lexemes.
DropFirst(s, n) == SubSeq(s, n + 1, Len(s))
DropLast(s, n) == SubSeq(s, 1, Len(s) - n)

\* str.strip(): the white space at both ends goes.
RECURSIVE lstrip(_)
lstrip(s) == IF s # <<>> /\ Head(s) = Space THEN lstrip(Tail(s)) ELSE s
RECURSIVE rstrip(_)
rstrip(s) == IF s # <<>> /\ s[Len(s)] = Space THEN rstrip(DropLast(s, 1)) ELSE s
strip(s) == rstrip(lstrip(s))

\* str.startswith and str.endswith for the two fences: the fence with the
\* language tag starts with the plain fence too.
startswith(s, fence) ==
  /\ s # <<>>
  /\ IF fence = Fence THEN Head(s) \in {Fence, FenceJson} ELSE Head(s) = fence
endswith(s, fence) == s # <<>> /\ s[Len(s)] = fence

\* Lines 78-87: the response without the white space around it, the opening
\* fence, the closing fence, and the white space inside the fences.
cleaned_response(raw_response) ==
  LET stripped == strip(raw_response)
      opened == IF startswith(stripped, FenceJson) THEN DropFirst(stripped, 1)
                ELSE IF startswith(stripped, Fence) THEN DropFirst(stripped, 1)
                ELSE stripped
      closed == IF endswith(opened, Fence) THEN DropLast(opened, 1) ELSE opened
  IN strip(closed)

\* json.loads: a value is a number or an object, an object is a pair of braces
\* around members separated by commas, a member is a key and a value; white
\* space may stand between lexemes. The decoder answers with the value read
\* from position i and the position after it, or fails.
DecodeFailed == [ok |-> FALSE]
RECURSIVE decode_value(_, _)
RECURSIVE decode_members(_, _, _)
decode_value(s, i) ==
  IF i > Len(s) THEN DecodeFailed
  ELSE IF IsNumber(s[i])
  THEN [ok |-> TRUE, kind |-> "number", value |-> s[i][2], next |-> i + 1]
  ELSE IF s[i] # LBrace THEN DecodeFailed
  ELSE IF i + 1 <= Len(s) /\ s[i + 1] = RBrace
  THEN [ok |-> TRUE, kind |-> "object", value |-> <<>>, next |-> i + 2]
  ELSE decode_members(s, i + 1, <<>>)
\* The members from position i on, added to the dict read so far (a key read
\* twice keeps its last value).
decode_members(s, i, dict) ==
  IF i + 1 > Len(s) \/ ~IsKey(s[i]) THEN DecodeFailed
  ELSE LET v == decode_value(s, i + 1) IN
       IF ~v.ok THEN DecodeFailed
       ELSE LET member == [k \in DOMAIN dict \cup {s[i][2]} |->
                             IF k = s[i][2] THEN v.value ELSE dict[k]] IN
            IF v.next > Len(s) THEN DecodeFailed
            ELSE IF s[v.next] = RBrace
            THEN [ok |-> TRUE, kind |-> "object", value |-> member, next |-> v.next + 1]
            ELSE IF s[v.next] = Comma THEN decode_members(s, v.next + 1, member)
            ELSE DecodeFailed
json_loads(text) ==
  LET s == SelectSeq(text, LAMBDA x : x # Space)
      v == decode_value(s, 1)
  IN IF v.ok /\ v.next = Len(s) + 1 THEN [ok |-> TRUE, kind |-> v.kind, value |-> v.value]
     ELSE DecodeFailed

\* re.search with the greedy pattern of line 96: the span from the first "{"
\* to the last "}" after it, or no match.
Positions(s, x) == {i \in 1..Len(s) : s[i] = x}
Least(S) == CHOOSE i \in S : \A j \in S : i <= j
Greatest(S) == CHOOSE i \in S : \A j \in S : j <= i
NoMatch == [found |-> FALSE]
\* The pattern made lazy: the span ends at the first "}" after the first "{".
json_match_lazy(raw_response) ==
  LET opens == Positions(raw_response, LBrace)
      closes == {i \in Positions(raw_response, RBrace) :
                   opens # {} /\ i > Least(opens)}
  IN IF opens = {} \/ closes = {} THEN NoMatch
     ELSE [found |-> TRUE,
           group |-> SubSeq(raw_response, Least(opens), Least(closes))]
json_match(raw_response) ==
  LET opens == Positions(raw_response, LBrace)
      closes == Positions(raw_response, RBrace)
  IN IF opens = {} \/ closes = {} THEN NoMatch
     ELSE IF Greatest(closes) < Least(opens) THEN NoMatch
     ELSE [found |-> TRUE,
           group |-> SubSeq(raw_response, Least(opens), Greatest(closes))]

\* Lines 77-107 of either adapter, with the except of the call around them:
\* the cleaned response is decoded; when that fails the span of braces of the
\* raw response is decoded; when there is none or that fails too the parsed
\* data is the error payload with confidence 0. A decoded value that is no
\* dict has no get(): the AttributeError ends the call in the adapter's
\* except.
parse_response(provider, raw_response) ==
  LET direct == json_loads(cleaned_response(raw_response))
      found == json_match(raw_response)
      span == IF found.found THEN json_loads(found.group) ELSE DecodeFailed
  IN IF direct.ok
     THEN IF direct.kind = "object" THEN ParsedResult(direct.value)
          ELSE ExceptionResult(provider)
     ELSE IF span.ok THEN ParsedResult(span.value)
     ELSE UnparseableResult

\* The lexemes of an object a model answers with (json.dumps).
Objects ==
  { <<LBrace, RBrace>>,
    <<LBrace, Key("confidence"), Number(9), RBrace>>,
    <<LBrace, Key("gate_visible"), Number(1), Comma, Key("confidence"), Number(8), RBrace>>,
    <<LBrace, Key("details"), LBrace, Key("level"), Number(3), RBrace, RBrace>>,
    <<LBrace, Key("details"), LBrace, RBrace, Comma,
      Key("confidence"), Number(7), RBrace>> }
\* The prose a model puts before and after the object: words, white space,
\* and words in braces.
Proses ==
  { <<Word>>, <<Word, Space>>, <<Space, Word>>,
    <<Word, LBrace, Word, RBrace, Space>>, <<Space, LBrace, Word, RBrace, Word>> }
\* Responses that hold no object.
Others == { <<>>, <<Word>>, <<Number(4)>>, <<LBrace, Word>>, <<LBrace, Key("confidence"), RBrace>>,
            <<FenceJson, Word, Fence>> }

\* The three forms of a response that holds an object.
Fenced(object) == <<FenceJson, Space>> \o object \o <<Space, Fence>>
Bare(object) == object
InProse(before, object, after) == before \o object \o after

ParseFrame ==
  UNCHANGED <<task_vars, engine_vars, loop_vars, adapters, got, cache_vars, cost_vars>>

\* A model answers: with an object, to be sent in each of the three forms, or
\* with a response that holds none.
Answer ==
  /\ \/ \E object \in Objects, before \in Proses, after \in Proses :
          p_in' = [kind |-> "object", object |-> object, before |-> before, after |-> after]
     \/ \E other \in Others :
          p_in' = [kind |-> "other", object |-> other, before |-> <<>>, after |-> <<>>]
  /\ p_out' = NoResult
  /\ ParseFrame

\* An adapter parses what the model answered, in each form.
Parse(provider) ==
  /\ p_in # NoResult
  /\ p_out = NoResult
  /\ p_out' = [provider |-> provider,
               fenced |-> parse_response(provider, Fenced(p_in.object)),
               bare |-> parse_response(provider, Bare(p_in.object)),
               prose |-> parse_response(provider,
                                        InProse(p_in.before, p_in.object, p_in.after))]
  /\ UNCHANGED p_in
  /\ ParseFrame

ParseInit ==
  /\ IdleProcessor
  /\ providers = {}
  /\ adapters = NoAdapters
  /\ InitRegistry /\ InitCache /\ InitCosts /\ InitParse

ParseNext ==
  \/ Answer
  \/ \E provider \in {"openai", "gemini"} : Parse(provider)

SpecParse == ParseInit /\ [][ParseNext]_vars

\* The parsed data is the payload of a response no tier could decode.
IsErrorPayload(result) == result = UnparseableResult
\* The response the adapter was given in a form.
Forms == {"fenced", "bare", "prose"}
RawOf(form) ==
  IF form = "fenced" THEN Fenced(p_in.object)
  ELSE IF form = "bare" THEN Bare(p_in.object)
  ELSE InProse(p_in.before, p_in.object, p_in.after)
\* Neither the direct decode nor the decode of a span of braces succeeds.
EveryTierFails(raw) ==
  /\ ~json_loads(cleaned_response(raw)).ok
  /\ json_match(raw).found => ~json_loads(json_match(raw).group).ok
\* The error payload with confidence 0 is given only when every tier fails.
ErrorOnlyWhenEveryTierFails ==
  \A form \in Forms :
    IsErrorPayload(p_out[form]) =>
      EveryTierFails(RawOf(form)) /\ p_out[form].confidence = 0
\* The prose around the object has no "{" before it and no "}" after it.
BraceFree ==
  /\ LBrace \notin {p_in.before[i] : i \in 1..Len(p_in.before)}
  /\ RBrace \notin {p_in.after[i] : i \in 1..Len(p_in.after)}

NullWaterConfig ==
  [WaterConfig EXCEPT !.secondary_provider = "NULL", !.tiebreaker_provider = "NULL"]

\* analysis_configs with the gate config and that row; there is no row cfg3.
NullConfigs ==
  [c \in ConfigIds |-> IF c = "cfg1" THEN GateConfig
                       ELSE IF c = "cfg2" THEN NullWaterConfig ELSE <<>>]

NullInit ==
  /\ tasks \in Queues(NullConfigs)
  /\ configs = NullConfigs
  /\ api_keys = {"openai", "gemini"}
  /\ providers = {}
  /\ adapters = NoAdapters
  /\ InitSide
  /\ InitLocals
  /\ rc = "call"
  /\ NoEngineCall

SpecNull == NullInit /\ [][ContinuousNext]_vars

\* The config names neither a secondary nor a tiebreaker provider.
PrimaryAlone(config) ==
  /\ config.secondary_provider \in {"ABSENT", "NULL"}
  /\ config.tiebreaker_provider \in {"ABSENT", "NULL"}

\* C28: a task of a config without secondary and tiebreaker provider never
\* fails over the missing providers, gets the primary call alone, and takes
\* the success path when that call returns.
C28_PrimaryAloneCompletes ==
  [][\A t \in TaskIds :
       (configs[ConfigOf(t)] # <<>> /\ PrimaryAlone(configs[ConfigOf(t)])) =>
         /\ tasks'[t].error_message # "AttributeError"
         /\ wpc'[t] \notin {"secondary", "tiebreaker"}
         /\ (wpc[t] = "primary" /\ wpc'[t] # "primary")
              => (wpc'[t] = "done" /\ ret'[t] = TRUE)]_vars

\* ------------------------------------------------------------- a queue with tasks that cannot be processed
\* analysis_configs after the rows cfg2 and cfg3 were deleted: their tasks are
\* still in analysis_tasks.
GateConfigOnly == [c \in ConfigIds |-> IF c = "cfg1" THEN GateConfig ELSE <<>>]

\* Every (image, config) has a pending task or none.
StarveInit ==
  /\ tasks \in {q \in [TaskIds -> {AbsentRow} \cup {ExternalRow(t) : t \in TaskIds}] :
                  \A t \in TaskIds : q[t] \in {AbsentRow, ExternalRow(t)}}
  /\ configs = GateConfigOnly
  /\ api_keys = {"openai", "gemini"}
  /\ providers = {}
  /\ adapters = NoAdapters
  /\ InitSide
  /\ InitLocals
  /\ rc = "call"
  /\ NoEngineCall

\* Fair scheduling, and a store that does not fail for ever: a fetch that is
\* tried again and again gets the rows, the reads of a task's run succeed, and
\* a status write goes through.
StarveFairness ==
  /\ ContinuousFairness
  /\ SF_vars(ProcessBatchStart /\ mode' = "batch")
  /\ \A t \in TaskIds :
       /\ SF_vars(StartTask(t) /\ wpc'[t] = "download")
       /\ SF_vars(Download(t) /\ tasks'[t].status # "pending")

SpecStarve == StarveInit /\ [][ContinuousNext]_vars /\ StarveFairness

\* The task row, the config and the image of the task exist.
Processable(t) == tasks[t].status # "absent" /\ configs[ConfigOf(t)] # <<>>

\* C29: every pending task that can be processed is eventually fetched and
\* leaves status pending, whatever else is in the queue.
C29_ProcessableTasksLeavePending ==
  \A t \in TaskIds :
    (Processable(t) /\ tasks[t].status = "pending") ~> (tasks[t].status # "pending")

\* ------------------------------------------------------------- claims: two error results
\* An error result: the call raised in the adapter or no tier could parse the
\* output; its parsed data has none of the fields the engine compares.
IsErrorResult(result) ==
  /\ result.error # "None" \/ IsErrorPayload(result)
  /\ \A f \in RelevantFields(e_config.analysis_type) : f \notin DOMAIN result.parsed_data

BothErrorResults ==
  /\ PrimaryRan /\ SecondaryRan
  /\ IsErrorResult(e_run.primary_result)
  /\ IsErrorResult(e_run.secondary_result)

\* C30: when the primary and the secondary call both return error results,
\* the engine returns after the two calls with agreement true, without a
\* tiebreaker call, and with the primary's parsed data as the final result.
C30_TwoErrorResultsAgree ==
  BothErrorResults =>
    /\ e_pc = "returned"
    /\ e_calls = 2
    /\ ~TiebreakerRan
    /\ e_out.agreement = TRUE
    /\ e_out.tiebreaker_used = FALSE
    /\ e_out.final_result = e_run.primary_result.parsed_data

\* C30's case: two different error payloads, with a tiebreaker configured.
C30_Witness ==
  /\ e_pc = "returned"
  /\ BothErrorResults
  /\ TiebreakerIsConfigured
  /\ e_run.primary_result.parsed_data # e_run.secondary_result.parsed_data
  /\ e_out.agreement = TRUE

====
